---- MODULE Spec2Model ----
(***************************************************************************)
(* The shell-environment configuration engine of eee                       *)
(* (src/src/eee-env-manager.ts, class EeeEnvManager): the module registry, *)
(* the dependency resolver, the configuration merger, the content          *)
(* generator, the persistence of ~/.eee-env and the shell integration.     *)
(*                                                                         *)
(* A module is a record [name, priority, deps, env, paths, aliases,        *)
(* functions, customCode].  priority is <<>> when config.priority is       *)
(* undefined and <<p>> otherwise.  env, aliases and functions are sequences of *)
(* <<key, value>> pairs in the key order of the JS object.                 *)
(* The registry is the Map `modules`, kept as the sequence of its values   *)
(* in insertion order (Map.set on an existing key keeps its position).     *)
(***************************************************************************)
EXTENDS Integers, Sequences, FiniteSets, TLC

VARIABLES
    modules,   \* the Map of registered modules, in insertion order
    last,      \* the most recent call: its name, what it threw, what it did
    clock,     \* the wall clock new Date() reads
    user,      \* this.user, the target user
    shellIntegration,  \* this.config.shellIntegration
    backup,    \* this.config.backup
    cfgFile,   \* the file at this.configPath
    backups,   \* the files <configPath>.backup.<timestamp>
    bashrc,    \* <home>/.bashrc
    zshrc,     \* <home>/.zshrc
    PATH,      \* $PATH of a shell session that sources the generated file
    dirs,      \* the directories that exist in that session
    installation,  \* the run of installEnvironment: where it is, what it ran
    runs       \* applyConfiguration running in two processes on one home

vars == <<modules, last, clock, user, shellIntegration, backup, cfgFile, backups,
          bashrc, zshrc, PATH, dirs, installation, runs>>

files == <<user, shellIntegration, backup, cfgFile, backups, bashrc, zshrc>>

shell == <<PATH, dirs>>

(***************************************************************************)
(* Bounds of the model and constants of the program.                       *)
(***************************************************************************)
MaxDeps == 1

MaxPaths == 2

MaxClock == 2

DefaultPriority == 100

DefaultMaxBackups == 5

Names == {"a", "b", "c"}

BadName == "bad name"

BadEnvKey == "foo"

BadAliasKey == "1l"

ConfigPath == "/home/u/.eee-env"

(***************************************************************************)
(* Sequence helpers.                                                       *)
(***************************************************************************)
Range(s) == {s[i] : i \in 1..Len(s)}

SeqsUpTo(S, n) == UNION {[1..k -> S] : k \in 0..n}

DistinctSeqsUpTo(S, n) == {s \in SeqsUpTo(S, n) : Cardinality(Range(s)) = Len(s)}

(***************************************************************************)
(* Map accessors on the registry.                                          *)
(***************************************************************************)
keys(mods) == [i \in 1..Len(mods) |-> mods[i].name]

has(mods, n) == \E i \in 1..Len(mods) : mods[i].name = n

get(mods, n) == mods[CHOOSE i \in 1..Len(mods) : mods[i].name = n]

mapSet(mods, m) ==
    IF has(mods, m.name)
    THEN [i \in 1..Len(mods) |-> IF mods[i].name = m.name THEN m ELSE mods[i]]
    ELSE Append(mods, m)

mapDelete(mods, n) == SelectSeq(mods, LAMBDA x : x.name # n)

priorityOf(m) == IF m.priority = <<>> THEN DefaultPriority ELSE m.priority[1]

(***************************************************************************)
(* validateModule: the name must be non-empty and match [a-zA-Z0-9_-]+,    *)
(* every environment key must match [A-Z_][A-Z0-9_]* and every alias key   *)
(* [a-zA-Z_][a-zA-Z0-9_-]*.  The names the model draws are the members of  *)
(* Names, which match, the empty string and BadName, which holds a space;  *)
(* the keys it draws match but for the empty string, BadEnvKey, which is   *)
(* in lower case, and BadAliasKey, which starts with a digit.              *)
(***************************************************************************)
validName(n) == n # "" /\ n # BadName

validEnvKey(k) == k # "" /\ k # BadEnvKey

validAliasKey(k) == k # "" /\ k # BadAliasKey

validateModuleNameOnly(m) == validName(m.name)

validateModule(m) ==
    /\ validName(m.name)
    /\ \A i \in 1..Len(m.env) : validEnvKey(m.env[i][1])
    /\ \A i \in 1..Len(m.aliases) : validAliasKey(m.aliases[i][1])

(***************************************************************************)
(* checkDependencies: every declared dependency is a key of the registry.  *)
(***************************************************************************)
checkDependenciesSkipped(mods, m) == TRUE

checkDependencies(mods, m) == \A i \in 1..Len(m.deps) : has(mods, m.deps[i])

(***************************************************************************)
(* removeModule's test: the modules that list n among their dependencies.  *)
(***************************************************************************)
dependentModulesNone(mods, n) == {}

dependentModules(mods, n) ==
    {mods[i].name : i \in {j \in 1..Len(mods) : n \in Range(mods[j].deps)}}

(***************************************************************************)
(* resolveDependencies.  Array.prototype.sort is stable, so names of equal *)
(* priority keep the registry's insertion order.  visit is the depth-first *)
(* visit; st.err holds the module named by the thrown error, "" if none.   *)
(***************************************************************************)
RECURSIVE insertByPriority(_, _, _)
RECURSIVE insertBeforeEqual(_, _, _)
insertAtEnd(mods, s, n) == Append(s, n)

insertBeforeEqual(mods, s, n) ==
    IF s = <<>> THEN <<n>>
    ELSE IF priorityOf(get(mods, n)) <= priorityOf(get(mods, Head(s)))
         THEN <<n>> \o s
         ELSE <<Head(s)>> \o insertBeforeEqual(mods, Tail(s), n)

insertByPriority(mods, s, n) ==
    IF s = <<>> THEN <<n>>
    ELSE IF priorityOf(get(mods, n)) < priorityOf(get(mods, Head(s)))
         THEN <<n>> \o s
         ELSE <<Head(s)>> \o insertByPriority(mods, Tail(s), n)

RECURSIVE sortByPriority(_, _, _)
sortByPriority(mods, s, acc) ==
    IF s = <<>> THEN acc
    ELSE sortByPriority(mods, Tail(s), insertByPriority(mods, acc, Head(s)))

moduleNames(mods) == sortByPriority(mods, keys(mods), <<>>)

RECURSIVE visit(_, _, _)
RECURSIVE visitAll(_, _, _)
visitBeforeDependencies(mods, n, st) ==
    IF st.err # "" THEN st
    ELSE IF n \in st.visited \/ ~has(mods, n) THEN st
    ELSE visitAll(mods, get(mods, n).deps,
                  [st EXCEPT !.visited = @ \cup {n},
                             !.sorted = Append(@, get(mods, n))])

visit(mods, n, st) ==
    IF st.err # "" THEN st
    ELSE IF n \in st.visited THEN st
    ELSE IF n \in st.visiting THEN [st EXCEPT !.err = n]
    ELSE IF ~has(mods, n) THEN st
    ELSE LET st1 == [st EXCEPT !.visiting = @ \cup {n}]
             st2 == visitAll(mods, get(mods, n).deps, st1)
         IN  IF st2.err # "" THEN st2
             ELSE [st2 EXCEPT !.visiting = @ \ {n},
                              !.visited = @ \cup {n},
                              !.sorted = Append(@, get(mods, n))]

visitAll(mods, ns, st) ==
    IF ns = <<>> THEN st
    ELSE visitAll(mods, Tail(ns), visit(mods, Head(ns), st))

resolveDependencies(mods) ==
    visitAll(mods, moduleNames(mods),
             [sorted |-> <<>>, visited |-> {}, visiting |-> {}, err |-> ""])

(***************************************************************************)
(* mergeConfigurations.  Object.assign keeps the position of a key that is *)
(* already there and appends a new one; paths are appended if absent.      *)
(***************************************************************************)
hasKey(obj, k) == \E i \in 1..Len(obj) : obj[i][1] = k

valueOf(obj, k) == obj[CHOOSE i \in 1..Len(obj) : obj[i][1] = k][2]

assignKeyIfAbsent(obj, kv) == IF hasKey(obj, kv[1]) THEN obj ELSE Append(obj, kv)

assignKey(obj, kv) ==
    IF hasKey(obj, kv[1])
    THEN [i \in 1..Len(obj) |-> IF obj[i][1] = kv[1] THEN kv ELSE obj[i]]
    ELSE Append(obj, kv)

RECURSIVE objectAssign(_, _)
objectAssign(obj, src) ==
    IF src = <<>> THEN obj
    ELSE objectAssign(assignKey(obj, Head(src)), Tail(src))

pushPathAlways(ps, p) == Append(ps, p)

pushPath(ps, p) == IF p \in Range(ps) THEN ps ELSE Append(ps, p)

RECURSIVE mergePaths(_, _)
mergePaths(ps, src) ==
    IF src = <<>> THEN ps
    ELSE mergePaths(pushPath(ps, Head(src)), Tail(src))

(* merged.aliases[key] = value, for each entry in turn; a differing value
   that is already there is logged as a conflict and overwritten *)
RECURSIVE mergeEntries(_, _)
mergeEntries(obj, src) ==
    IF src = <<>> THEN obj
    ELSE mergeEntries(assignKey(obj, Head(src)), Tail(src))

mergeModule(merged, m) ==
    [environment |-> objectAssign(merged.environment, m.env),
     paths       |-> mergePaths(merged.paths, m.paths),
     aliases     |-> mergeEntries(merged.aliases, m.aliases),
     functions   |-> mergeEntries(merged.functions, m.functions),
     customCode  |-> merged.customCode \o m.customCode]

RECURSIVE mergeFrom(_, _)
mergeFrom(merged, ms) ==
    IF ms = <<>> THEN merged
    ELSE mergeFrom(mergeModule(merged, Head(ms)), Tail(ms))

mergeConfigurations(ms) ==
    mergeFrom([environment |-> <<>>, paths |-> <<>>, aliases |-> <<>>,
               functions |-> <<>>, customCode |-> <<>>], ms)

(***************************************************************************)
(* The warnings logger.warn is given during the merge.  merged.aliases and *)
(* merged.functions are plain objects: merged.aliases[key] is the value    *)
(* recorded under key or, with none recorded, what Object.prototype has    *)
(* under that name, or undefined.  read(obj, k) is <<v>> for a value v and *)
(* <<>> for undefined.  The empty string and undefined are falsy.          *)
(***************************************************************************)
Inherited == {"constructor"}

read(obj, k) ==
    IF hasKey(obj, k) THEN <<valueOf(obj, k)>>
    ELSE IF k \in Inherited THEN << <<"Object.prototype", k>> >>
    ELSE <<>>

truthy(r) == r # <<>> /\ r # <<"">>

(* merged.aliases[key] && merged.aliases[key] !== value *)
conflicts(obj, kv) == truthy(read(obj, kv[1])) /\ read(obj, kv[1]) # <<kv[2]>>

RECURSIVE conflictsIn(_, _, _)
conflictsIn(obj, src, kind) ==
    IF src = <<>> THEN <<>>
    ELSE (IF conflicts(obj, Head(src)) THEN << <<kind, Head(src)[1]>> >> ELSE <<>>)
         \o conflictsIn(assignKey(obj, Head(src)), Tail(src), kind)

RECURSIVE warningsFrom(_, _)
warningsFrom(merged, ms) ==
    IF ms = <<>> THEN <<>>
    ELSE conflictsIn(merged.aliases, Head(ms).aliases, "alias conflict")
         \o conflictsIn(merged.functions, Head(ms).functions, "function conflict")
         \o warningsFrom(mergeModule(merged, Head(ms)), Tail(ms))

mergeWarnings(ms) ==
    warningsFrom([environment |-> <<>>, paths |-> <<>>, aliases |-> <<>>,
                  functions |-> <<>>, customCode |-> <<>>], ms)

(***************************************************************************)
(* generateConfigContent: the lines that lines.join("\n") joins.  A line   *)
(* is a tuple: its kind and the values interpolated into it.  now is the   *)
(* value of new Date() in the header.                                      *)
(***************************************************************************)
EmptyLine == <<>>

headerLines(now) ==
    << <<"#!/bin/bash">>, <<"#">>,
       <<"# EEE Development Environment Configuration">>,
       <<"# do not edit">>, <<"# generated", now>>, <<"#">>, EmptyLine >>

exportLines(env) == [i \in 1..Len(env) |-> <<"export", env[i][1], env[i][2]>>]

pathExportOnly(p) == << <<"# add to PATH", p>>, <<"  export PATH", p>> >>

pathGuard(p) ==
    << <<"# add to PATH", p>>, <<"if [ -d ] && not in PATH", p>>,
       <<"  export PATH", p>>, <<"fi">> >>

RECURSIVE pathLines(_)
pathLines(ps) ==
    IF ps = <<>> THEN <<>> ELSE pathGuard(Head(ps)) \o pathLines(Tail(ps))

aliasLines(al) == [i \in 1..Len(al) |-> <<"alias", al[i][1], al[i][2]>>]

functionBlock(kv) == << <<"() {", kv[1]>>, <<"  body", kv[2]>>, <<"}">>, EmptyLine >>

RECURSIVE functionLines(_)
functionLines(fs) ==
    IF fs = <<>> THEN <<>> ELSE functionBlock(Head(fs)) \o functionLines(Tail(fs))

customLines(cc) == [i \in 1..Len(cc) |-> <<"custom", cc[i]>>]

FooterLine == <<"# ========== EEE end ==========">>

generateConfigContent(config, now) ==
    headerLines(now)
    \o (IF Len(config.environment) > 0
        THEN << <<"# ========== environment ==========">>, EmptyLine >>
             \o exportLines(config.environment) \o <<EmptyLine>>
        ELSE <<>>)
    \o (IF Len(config.paths) > 0
        THEN << <<"# ========== PATH ==========">>, EmptyLine >>
             \o pathLines(config.paths) \o <<EmptyLine>>
        ELSE <<>>)
    \o (IF Len(config.aliases) > 0
        THEN << <<"# ========== aliases ==========">>, EmptyLine >>
             \o aliasLines(config.aliases) \o <<EmptyLine>>
        ELSE <<>>)
    \o (IF Len(config.functions) > 0
        THEN << <<"# ========== functions ==========">>, EmptyLine >>
             \o functionLines(config.functions)
        ELSE <<>>)
    \o (IF Len(config.customCode) > 0
        THEN << <<"# ========== custom code ==========">>, EmptyLine >>
             \o customLines(config.customCode) \o <<EmptyLine>>
        ELSE <<>>)
    \o <<FooterLine>>

(***************************************************************************)
(* What `source` does to $PATH when it runs the generated lines in a shell *)
(* where the directories ds exist: the test of a guard, [ -d "p" ] and     *)
(* [[ ":$PATH:" != *":p:"* ]], decides whether the export up to its fi is  *)
(* run; an export outside a guard is run.  No other generated line of the  *)
(* model reads or sets PATH.                                               *)
(***************************************************************************)
sourceLine(line, sh, ds) ==
    IF Len(line) = 2 /\ line[1] = "if [ -d ] && not in PATH"
    THEN [sh EXCEPT !.skip = ~(line[2] \in ds /\ line[2] \notin Range(sh.PATH))]
    ELSE IF Len(line) = 2 /\ line[1] = "  export PATH"
    THEN IF sh.skip THEN sh ELSE [sh EXCEPT !.PATH = <<line[2]>> \o @]
    ELSE IF line = <<"fi">> THEN [sh EXCEPT !.skip = FALSE]
    ELSE sh

RECURSIVE sourceFrom(_, _, _)
sourceFrom(text, sh, ds) ==
    IF text = <<>> THEN sh
    ELSE sourceFrom(Tail(text), sourceLine(Head(text), sh, ds), ds)

sourceFile(text, path, ds) == sourceFrom(text, [PATH |-> path, skip |-> FALSE], ds).PATH

(***************************************************************************)
(* Files.  A text is held as text.split("\n"): a text that ends in a       *)
(* newline has EmptyLine as its last element, the empty text is            *)
(* <<EmptyLine>>.  A file is [exists, owner, text].                        *)
(***************************************************************************)
NoFile == [exists |-> FALSE, owner |-> "", text |-> <<>>]

EmptyText == <<EmptyLine>>

Front(s) == SubSeq(s, 1, Len(s) - 1)

appendText(t, x) ==
    IF t = <<>> THEN x
    ELSE IF t[Len(t)] = EmptyLine THEN Front(t) \o x
    ELSE Front(t) \o << <<"joined", t[Len(t)], Head(x)>> >> \o Tail(x)

(* the body of a here document: the text and the newline before EEEEOF *)
hereDocument(content) == Append(content, EmptyLine)

(* a script run as u (sudo -u u) may write a file that is u's or is new *)
canWrite(f, u) == u = "root" \/ ~f.exists \/ f.owner = u

written(f, u, text) ==
    [exists |-> TRUE, owner |-> IF f.exists THEN f.owner ELSE u, text |-> text]

(***************************************************************************)
(* The run of applyConfiguration is a record s: the files, the log of the  *)
(* filesystem changes made and of the commands that failed so far, in      *)
(* order, err, the error thrown ("none" while none is) and msg, its        *)
(* message.  Every step leaves s alone once    *)
(* err is set.  sudo is what `sudo chown` does in this run: it succeeds,   *)
(* or fails with a stderr that asks for a password or a terminal, or fails *)
(* with another stderr.                                                    *)
(***************************************************************************)
Sudo == {"ok", "password", "other"}

pathOf(f) == IF f = "cfg" THEN ConfigPath ELSE f

(* this.userGroup, the output of id -gn *)
getUserPrimaryGroup(u) == <<"id -gn", u>>

chownCommand(f, u) == <<"sudo chown", u, getUserPrimaryGroup(u), pathOf(f)>>

(* the message of the error fixFileOwnership throws *)
chownErrorGeneric(f, u, sudo) ==
    [text |-> "cannot repair", path |-> pathOf(f), remedy |-> <<>>, stderr |-> <<sudo>>]

chownError(f, u, sudo) ==
    IF sudo = "password"
    THEN [text |-> "cannot repair, sudo needs a password", path |-> pathOf(f),
          remedy |-> <<chownCommand(f, u)>>, stderr |-> <<>>]
    ELSE [text |-> "cannot repair", path |-> pathOf(f),
          remedy |-> <<>>, stderr |-> <<sudo>>]

fixFileOwnershipNever(s, f, u, sudo) == s

fixFileOwnership(s, f, u, sudo) ==
    IF s.err # "none" \/ ~s[f].exists \/ s[f].owner = u THEN s
    ELSE IF sudo = "ok"
         THEN [s EXCEPT ![f].owner = u, !.log = Append(@, <<"chown", f>>)]
         ELSE [s EXCEPT !.err = "OwnershipRepairError",
                        !.msg = <<chownError(f, u, sudo)>>,
                        !.log = Append(@, <<"sudo chown failed", f, sudo>>)]

(* the loop over ls <configPath>.backup.*: an error in it is swallowed *)
fixBackupsOwnership(s, u, sudo) ==
    IF s.err # "none" \/ sudo # "ok" \/ \A b \in s.backups : b.owner = u THEN s
    ELSE [s EXCEPT !.backups = {[b EXCEPT !.owner = u] : b \in @},
                   !.log = Append(@, <<"chown", "backups">>)]

fixAllPermissions(s, u, sudo) ==
    fixFileOwnership(
        fixFileOwnership(
            fixBackupsOwnership(fixFileOwnership(s, "cfg", u, sudo), u, sudo),
            "bashrc", u, sudo),
        "zshrc", u, sudo)

(***************************************************************************)
(* Backups.  A backup is [stamp, owner, text]: stamp is the timestamp in   *)
(* its name and, cp having made it then, its modification time.            *)
(***************************************************************************)
stampsOf(bs) == {b.stamp : b \in bs}

(* ls -1t ... | tail -n +(max + 1): all but the max most recent *)
oldBackupsNone(bs, max) == {}

oldBackups(bs, max) ==
    {b \in bs : Cardinality({c \in bs : c.stamp > b.stamp}) >= max}

cleanupOldBackups(s, max) ==
    LET old == oldBackups(s.backups, max)
    IN  IF old = {} THEN s
        ELSE [s EXCEPT !.backups = @ \ old,
                       !.log = Append(@, <<"rm", stampsOf(old)>>)]

(* cp "<configPath>" "<configPath>.backup.<now>" run as u; cpOk says whether
   the copy can succeed in this run; a failure of it is ignored *)
copyOrThrow(s, u, now, cpOk) ==
    IF cpOk THEN s
    ELSE [s EXCEPT !.err = "PersistenceError",
                   !.log = Append(@, <<"cp failed", now>>)]

copyToBackup(s, u, now, cpOk) ==
    LET there == {b \in s.backups : b.stamp = now}
    IN  IF cpOk /\ \A b \in there : u = "root" \/ b.owner = u
        THEN [s EXCEPT !.backups = (@ \ there) \cup
                           {[stamp |-> now, text |-> s.cfg.text,
                             owner |-> IF there = {} THEN u
                                       ELSE (CHOOSE b \in there : TRUE).owner]},
                       !.log = Append(@, <<"cp", now>>)]
        ELSE [s EXCEPT !.log = Append(@, <<"cp failed", now>>)]

backupCurrentConfig(s, u, now, max, cpOk) ==
    IF s.err # "none" \/ ~s.cfg.exists THEN s
    ELSE cleanupOldBackups(copyToBackup(s, u, now, cpOk), max)

(* readCurrentConfig: <<text>>, or <<>> for null *)
readCurrentConfig(f) == IF f.exists THEN <<f.text>> ELSE <<>>

writeConfigFileAppending(s, content, u, sudo) ==
    IF s.err # "none" THEN s
    ELSE IF readCurrentConfig(s.cfg) = <<content>> THEN s
    ELSE [s EXCEPT !.cfg = written(@, u, appendText(@.text, hereDocument(content))),
                   !.log = Append(@, <<"write", "cfg">>)]

writeConfigFile(s, content, u, sudo) ==
    IF s.err # "none" THEN s
    ELSE IF readCurrentConfig(s.cfg) = <<content>> THEN s
    ELSE LET s1 == fixFileOwnership(s, "cfg", u, sudo)
         IN  IF s1.err # "none" THEN s1
             ELSE IF canWrite(s1.cfg, u)
                  THEN [s1 EXCEPT !.cfg = written(@, u, hereDocument(content)),
                                  !.log = Append(@, <<"write", "cfg">>)]
                  ELSE [s1 EXCEPT !.err = "PersistenceError"]

(***************************************************************************)
(* Shell integration.                                                      *)
(***************************************************************************)
MarkerLine == <<"# EEE Development Environment">>

sourceLines ==
    << MarkerLine, <<"if [ -f ]; then", ConfigPath>>,
       <<"  source", ConfigPath>>, <<"fi">> >>

(* grep -q "EEE Development Environment": a line that holds the label *)
holdsLabel(line) ==
    \/ line = MarkerLine
    \/ Len(line) = 3 /\ line[1] = "joined" /\ line[3] = MarkerLine

checkMarkerNever(f) == FALSE

checkMarkerInFile(f) == f.exists /\ \E i \in 1..Len(f.text) : holdsLabel(f.text[i])

overwriteFile(s, f, u, lines) ==
    IF canWrite(s[f], u)
    THEN [s EXCEPT ![f] = written(@, u, hereDocument(Append(lines, EmptyLine))),
                   !.log = Append(@, <<"append", f>>)]
    ELSE [s EXCEPT !.err = "ShellIntegrationError"]

(* cat >> file << EEEEOF with content = lines.join("\n") + "\n" *)
appendToFile(s, f, u, lines) ==
    IF canWrite(s[f], u)
    THEN [s EXCEPT ![f] = written(@, u,
                              appendText(@.text, hereDocument(Append(lines, EmptyLine)))),
                   !.log = Append(@, <<"append", f>>)]
    ELSE [s EXCEPT !.err = "ShellIntegrationError"]

addLinesAfterFailure(s, f, u, lines) ==
    IF checkMarkerInFile(s[f]) THEN s
    ELSE IF canWrite(s[f], u)
    THEN [s EXCEPT ![f] = written(@, u,
                              appendText(@.text, hereDocument(Append(lines, EmptyLine)))),
                   !.log = Append(@, <<"append", f>>)]
    ELSE s

addLinesToShellConfig(s, f, u, lines) ==
    IF s.err # "none" THEN s
    ELSE IF checkMarkerInFile(s[f]) THEN s
    ELSE appendToFile(s, f, u, lines)

ensureFileExists(s, f, u) ==
    IF s.err # "none" \/ s[f].exists THEN s
    ELSE [s EXCEPT ![f] = written(@, u, EmptyText),
                   !.log = Append(@, <<"touch", f>>)]

configureEveryShell(s, cfgr, u) ==
    addLinesToShellConfig(
        ensureFileExists(addLinesToShellConfig(s, "bashrc", u, sourceLines), "zshrc", u),
        "zshrc", u, sourceLines)

configureShellIntegration(s, cfgr, u) ==
    LET s1 == IF cfgr.bash THEN addLinesToShellConfig(s, "bashrc", u, sourceLines)
              ELSE s
    IN  IF cfgr.zsh
        THEN addLinesToShellConfig(ensureFileExists(s1, "zshrc", u), "zshrc", u,
                                   sourceLines)
        ELSE s1

(***************************************************************************)
(* applyConfiguration: repair ownership, resolve, merge, generate, write,  *)
(* integrate.  cfgr is this.config: its shellIntegration and its backup.   *)
(***************************************************************************)
applyConfiguration(mods, fs, cfgr, u, now, sudo, cpOk) ==
    LET s0 == [cfg |-> fs.cfg, backups |-> fs.backups, bashrc |-> fs.bashrc,
               zshrc |-> fs.zshrc, log |-> <<>>, err |-> "none", msg |-> <<>>]
        s1 == fixAllPermissions(s0, u, sudo)
        sb == IF cfgr.backup.enabled
              THEN backupCurrentConfig(s1, u, now, cfgr.backup.maxBackups, cpOk)
              ELSE s1
        r  == resolveDependencies(mods)
        content == generateConfigContent(mergeConfigurations(r.sorted), now)
        s2 == IF sb.err # "none" THEN sb
              ELSE IF r.err # ""
              THEN [sb EXCEPT !.err = "CyclicDependencyError", !.msg = <<r.err>>]
              ELSE writeConfigFile(sb, content, u, sudo)
    IN  configureShellIntegration(s2, cfgr.shellIntegration, u)

(***************************************************************************)
(* validateConfiguration and getEnvironmentInfo.  checkShellIntegration    *)
(* greps the startup file for this.configPath.  Both give back the files   *)
(* as the run left them, and what the call returns.                        *)
(***************************************************************************)
RECURSIVE holdsPath(_)
holdsPath(line) ==
    IF Len(line) = 3 /\ line[1] = "joined"
    THEN holdsPath(line[2]) \/ holdsPath(line[3])
    ELSE Len(line) = 2 /\ line[2] = ConfigPath

checkShellIntegration(f) == f.exists /\ \E i \in 1..Len(f.text) : holdsPath(f.text[i])

inspected(fs, result) ==
    [cfg |-> fs.cfg, backups |-> fs.backups, bashrc |-> fs.bashrc,
     zshrc |-> fs.zshrc, result |-> result]

validateByApplying(mods, fs, cfgr, u) ==
    inspected(applyConfiguration(mods, fs, cfgr, u, 0, "ok", TRUE),
              [valid |-> TRUE, issues |-> <<>>])

validateConfiguration(mods, fs, cfgr, u) ==
    LET issues ==
            (IF fs.cfg.exists THEN <<>> ELSE <<"no configuration file">>)
            \o (IF cfgr.shellIntegration.bash /\ ~checkShellIntegration(fs.bashrc)
                THEN <<"bash not integrated">> ELSE <<>>)
            \o (IF cfgr.shellIntegration.zsh /\ ~checkShellIntegration(fs.zshrc)
                THEN <<"zsh not integrated">> ELSE <<>>)
    IN  inspected(fs, [valid |-> issues = <<>>, issues |-> issues])

getEnvironmentInfo(mods, fs, cfgr, u) ==
    inspected(fs, [modules |-> mods, configPath |-> ConfigPath,
                   shellIntegration |-> [bash |-> checkShellIntegration(fs.bashrc),
                                         zsh |-> checkShellIntegration(fs.zshrc)],
                   lastApplied |-> fs.cfg.exists])

(***************************************************************************)
(* The calls.  called(op, err, log, plan) is the record kept in `last`.    *)
(***************************************************************************)
called(op, err, log, plan) ==
    [op |-> op, err |-> err, log |-> log, plan |-> plan, msg |-> <<>>]

AddModule(m) ==
    /\ IF ~validateModule(m)
       THEN /\ last' = called("addModule", "ValidationError", <<>>, <<>>)
            /\ UNCHANGED modules
       ELSE IF ~checkDependencies(modules, m)
       THEN /\ last' = called("addModule", "MissingDependencyError", <<>>, <<>>)
            /\ UNCHANGED modules
       ELSE /\ modules' = mapSet(modules, m)
            /\ last' = called("addModule", "none", <<>>, <<>>)
    /\ UNCHANGED <<clock, files, shell, installation, runs>>

RemoveModule(n) ==
    /\ IF ~has(modules, n)
       THEN /\ last' = called("removeModule", "none", <<>>, <<>>)
            /\ UNCHANGED modules
       ELSE IF dependentModules(modules, n) # {}
       THEN /\ last' = called("removeModule", "DependentModuleError", <<>>, <<>>)
            /\ UNCHANGED modules
       ELSE /\ modules' = mapDelete(modules, n)
            /\ last' = called("removeModule", "none", << <<"delete", n>> >>, <<>>)
    /\ UNCHANGED <<clock, files, shell, installation, runs>>

ClearAllModules ==
    /\ modules' = <<>>
    /\ last' = called("clearAllModules", "none", <<>>, <<>>)
    /\ UNCHANGED <<clock, files, shell, installation, runs>>

(* resolveDependencies, mergeConfigurations and generateConfigContent called
   on the registry as it is, with no file touched *)
Plan ==
    /\ LET r == resolveDependencies(modules)
           merged == mergeConfigurations(r.sorted)
       IN  last' = IF r.err # ""
                   THEN called("plan", "CyclicDependencyError", <<>>, <<>>)
                   ELSE called("plan", "none", <<>>,
                               << [sorted |-> [i \in 1..Len(r.sorted) |-> r.sorted[i].name],
                                   merged |-> merged,
                                   warnings |-> mergeWarnings(r.sorted),
                                   content |-> generateConfigContent(merged, clock)] >>)
    /\ UNCHANGED <<modules, clock, files, shell, installation, runs>>

ApplyConfiguration(sudo, cpOk) ==
    /\ LET s == applyConfiguration(modules,
                    [cfg |-> cfgFile, backups |-> backups, bashrc |-> bashrc,
                     zshrc |-> zshrc],
                    [shellIntegration |-> shellIntegration, backup |-> backup],
                    user, clock, sudo, cpOk)
       IN  /\ cfgFile' = s.cfg
           /\ backups' = s.backups
           /\ bashrc' = s.bashrc
           /\ zshrc' = s.zshrc
           /\ last' = [called("applyConfiguration", s.err, s.log, <<>>)
                          EXCEPT !.msg = s.msg]
    /\ UNCHANGED <<modules, clock, user, shellIntegration, backup, shell, installation, runs>>

theFiles == [cfg |-> cfgFile, backups |-> backups, bashrc |-> bashrc, zshrc |-> zshrc]

theConfig == [shellIntegration |-> shellIntegration, backup |-> backup]

returned(op, s) ==
    /\ cfgFile' = s.cfg
    /\ backups' = s.backups
    /\ bashrc' = s.bashrc
    /\ zshrc' = s.zshrc
    /\ last' = called(op, "none", <<>>, <<s.result>>)
    /\ UNCHANGED <<modules, clock, user, shellIntegration, backup, shell, installation, runs>>

ValidateConfiguration ==
    returned("validateConfiguration",
             validateConfiguration(modules, theFiles, theConfig, user))

GetEnvironmentInfo ==
    returned("getEnvironmentInfo",
             getEnvironmentInfo(modules, theFiles, theConfig, user))

(* `source` of the content generated last, in the shell session *)
Source ==
    /\ last.op \in {"plan", "source"}
    /\ last.err = "none"
    /\ PATH' = sourceFile(last.plan[1].content, PATH, dirs)
    /\ last' = [last EXCEPT !.op = "source"]
    /\ UNCHANGED <<modules, clock, files, dirs, installation, runs>>

Tick ==
    /\ clock < MaxClock
    /\ clock' = clock + 1
    /\ UNCHANGED <<modules, last, files, shell, installation, runs>>

(***************************************************************************)
(* installEnvironment (src/src/installer.ts): for each package in turn its *)
(* pre_install, install and post_install hooks.  What a hook does is drawn *)
(* for each: its file is absent (the import throws "Cannot find module"),  *)
(* it returns, it throws, it throws an error whose message holds "Cannot   *)
(* find module", or it calls applyConfiguration of the shared manager and  *)
(* returns or throws as that call does.  installation.ran is the list of   *)
(* <<package, hook, result>> so far; process.exit(1) ends the run.         *)
(***************************************************************************)
MaxPackages == 2

Hooks == <<"pre_install", "install", "post_install">>

Results == {"absent", "returned", "threw", "threw: Cannot find module"}

failed(r) == r \in {"threw", "threw: Cannot find module"}

(* the catch of the hook's try: does the error reach the outer catch *)
abortsNever(h, r) == FALSE

aborts(h, r) ==
    IF h = "install" THEN r # "returned"
    ELSE IF h = "pre_install" THEN r = "threw"
    ELSE FALSE

nextHook(h) == IF h = "pre_install" THEN "install" ELSE "post_install"

advance(i, h, r) ==
    IF aborts(h, r)
    THEN [i EXCEPT !.ran = Append(@, <<i.pkg, h, r>>), !.status = "exit 1"]
    ELSE IF h # "post_install"
    THEN [i EXCEPT !.ran = Append(@, <<i.pkg, h, r>>), !.hook = nextHook(h)]
    ELSE IF i.pkg < MaxPackages
    THEN [i EXCEPT !.ran = Append(@, <<i.pkg, h, r>>), !.pkg = @ + 1,
                   !.hook = "pre_install"]
    ELSE [i EXCEPT !.ran = Append(@, <<i.pkg, h, r>>), !.status = "done"]

(* a hook that touches no file of the manager *)
RunHook(r) ==
    /\ installation.status = "running"
    /\ installation' = advance(installation, installation.hook, r)
    /\ UNCHANGED <<modules, last, clock, files, shell, runs>>

(* an install or post_install hook that calls applyConfiguration *)
RunConfiguringHook(sudo) ==
    /\ installation.status = "running"
    /\ installation.hook # "pre_install"
    /\ LET s == applyConfiguration(modules, theFiles, theConfig, user, clock, sudo, TRUE)
       IN  /\ cfgFile' = s.cfg
           /\ backups' = s.backups
           /\ bashrc' = s.bashrc
           /\ zshrc' = s.zshrc
           /\ last' = [called("applyConfiguration", s.err, s.log, <<>>)
                          EXCEPT !.msg = s.msg]
           /\ installation' = advance(installation, installation.hook,
                                      IF s.err = "none" THEN "returned" ELSE "threw")
    /\ UNCHANGED <<modules, clock, user, shellIntegration, backup, shell, runs>>

(***************************************************************************)
(* Two installer processes, each with an EeeEnvManager and a registry of   *)
(* its own, run applyConfiguration on the same home directory.  Each call  *)
(* awaits its scripts one after the other and nothing locks the files, so  *)
(* the steps of one call interleave with those of the other at the awaits: *)
(* readCurrentConfig, the cat > of writeConfigFile, and for each startup   *)
(* file checkMarkerInFile and the cat >> of appendToFile (for .zshrc the   *)
(* touch of ensureFileExists first).  The files are the user's, so no      *)
(* ownership is repaired.  runs.proc[p] is where process p is and the      *)
(* content it generated, runs.log the steps taken so far, in order, each   *)
(* <<process, step>>.                                                      *)
(***************************************************************************)
Procs == {1, 2}

NoRuns == [proc |-> <<>>, log |-> <<>>]

moduleOf(p) ==
    [name |-> "a", priority |-> <<>>, deps |-> <<>>, env |-> << <<"FOO", p>> >>,
     paths |-> <<>>, aliases |-> <<>>, functions |-> <<>>, customCode |-> <<>>]

contentOf(p, now) ==
    generateConfigContent(
        mergeConfigurations(resolveDependencies(<<moduleOf(p)>>).sorted), now)

startup(f) == IF f = "bashrc" THEN bashrc ELSE zshrc

checking(f) == IF f = "bashrc" THEN "check bashrc" ELSE "check zshrc"

appending(f) == IF f = "bashrc" THEN "append bashrc" ELSE "append zshrc"

afterShell(f) == IF f = "bashrc" THEN "touch zshrc" ELSE "done"

at(p, pc) ==
    runs' = [runs EXCEPT !.proc[p].pc = pc, !.log = Append(@, <<p, runs.proc[p].pc>>)]

fileStep(s) ==
    /\ cfgFile' = s.cfg
    /\ bashrc' = s.bashrc
    /\ zshrc' = s.zshrc
    /\ UNCHANGED <<modules, last, clock, user, shellIntegration, backup, backups,
                   shell, installation>>

theRun == [cfg |-> cfgFile, backups |-> backups, bashrc |-> bashrc, zshrc |-> zshrc,
           log |-> <<>>, err |-> "none", msg |-> <<>>]

ReadConfig(p) ==
    /\ runs.proc[p].pc = "read"
    /\ at(p, IF readCurrentConfig(cfgFile) = <<runs.proc[p].content>>
             THEN "check bashrc" ELSE "write")
    /\ fileStep(theRun)

WriteConfig(p) ==
    /\ runs.proc[p].pc = "write"
    /\ at(p, "check bashrc")
    /\ fileStep([theRun EXCEPT
                    !.cfg = written(@, user, hereDocument(runs.proc[p].content))])

EnsureFileExists(p) ==
    /\ runs.proc[p].pc = "touch zshrc"
    /\ at(p, "check zshrc")
    /\ fileStep(ensureFileExists(theRun, "zshrc", user))

CheckMarker(p, f) ==
    /\ runs.proc[p].pc = checking(f)
    /\ at(p, IF checkMarkerInFile(startup(f)) THEN afterShell(f) ELSE appending(f))
    /\ fileStep(theRun)

AppendToFile(p, f) ==
    /\ runs.proc[p].pc = appending(f)
    /\ at(p, afterShell(f))
    /\ fileStep(appendToFile(theRun, f, user, sourceLines))

(***************************************************************************)
(* The modules the calls are given.                                        *)
(***************************************************************************)
Priorities == {<<>>, <<10>>, <<50>>}

Paths == {"/opt/x/bin", "/opt/y/bin"}

ModulesOf(ns, ps, ds, es, pths) ==
    [name : ns, priority : ps, deps : ds, env : es, paths : pths,
     aliases : {<<>>}, functions : {<<>>}, customCode : {<<>>}]

envOf(n) == {<<>>, << <<"FOO", n>> >>}

(* the dependency lists a module named n is given: up to MaxDeps other
   names, or itself *)
depsOf(n) == DistinctSeqsUpTo(Names \ {n}, MaxDeps) \cup {<<n>>}

RegistryInputs ==
    UNION {ModulesOf({n}, Priorities, depsOf(n), {<<>>}, {<<>>}) : n \in Names}
    \cup ModulesOf({BadName, ""}, {<<>>}, {<<>>, <<"a">>}, {<<>>}, {<<>>})
    \cup ModulesOf({"a"}, {<<>>}, {<<>>, <<"b">>},
                   {<< <<BadEnvKey, "x">> >>, << <<"FOO", "x">>, <<"", "y">> >>}, {<<>>})
    \cup {[m EXCEPT !.aliases = al] :
              m \in ModulesOf({"a"}, {<<>>}, {<<>>, <<"b">>}, {<<>>}, {<<>>}),
              al \in {<< <<BadAliasKey, "x">> >>, << <<"ll", "x">>, <<"", "y">> >>}}

MergeInputs ==
    UNION {ModulesOf({n}, {<<10>>, <<50>>}, DistinctSeqsUpTo(Names \ {n}, MaxDeps),
                     envOf(n), {<<>>}) : n \in Names}

PathInputs ==
    ModulesOf({"a", "b"}, {<<>>}, {<<>>}, {<<>>}, SeqsUpTo(Paths, MaxPaths))

(* two modules that may both define the alias ll and the function mk, each
   with a value of its own *)
aliasesOf(n) == {<<>>, << <<"ll", <<"ls", n>> >> >>}

functionsOf(n) == {<<>>, << <<"mk", <<"mkdir", n>> >> >>}

AliasInputs ==
    UNION {{[m EXCEPT !.aliases = al, !.functions = fn] :
               m \in ModulesOf({n}, {<<10>>, <<50>>},
                               DistinctSeqsUpTo({"a", "b"} \ {n}, MaxDeps),
                               {<<>>}, {<<>>}),
               al \in aliasesOf(n), fn \in functionsOf(n)} : n \in {"a", "b"}}

(* modules that depend on one another: re-adding one with a dependency on
   its dependent closes a cycle *)
CycleInputs ==
    UNION {ModulesOf({n}, {<<>>}, depsOf(n), {<<>>}, {<<>>}) : n \in Names}

(* two modules whose alias ll and function mk may be empty strings, and
   whose alias may be named as a property of Object.prototype is *)
WarnInputs ==
    UNION {{[m EXCEPT !.aliases = al, !.functions = fn] :
               m \in ModulesOf({n}, {<<10>>, <<50>>}, {<<>>}, {<<>>}, {<<>>}),
               al \in {<<>>, << <<"ll", "">> >>, << <<"ll", "ls -l">> >>,
                       << <<"ll", n>> >>, << <<"constructor", "x">> >>},
               fn \in {<<>>, << <<"mk", "">> >>, << <<"mk", n>> >>}} : n \in {"a", "b"}}

(* a module with or without each kind of configuration *)
ContentInputs ==
    {[m EXCEPT !.aliases = al, !.functions = fn, !.customCode = cc] :
        m \in ModulesOf({"a"}, {<<>>}, {<<>>}, envOf("a"), {<<>>, <<"/opt/x/bin">>}),
        al \in aliasesOf("a"), fn \in functionsOf("a"),
        cc \in {<<>>, <<"[ -s x ] && source x">>}}

FileInputs ==
    ModulesOf({"a"}, {<<>>}, {<<>>, <<"a">>}, envOf("a"), {<<>>})

(***************************************************************************)
(* The states after construction, and the specifications.                  *)
(***************************************************************************)
Users == {"alice", "root"}

OldText == << <<"# an earlier configuration">>, EmptyLine >>

emptyFile(o) == [exists |-> TRUE, owner |-> o, text |-> EmptyText]

(* the constructor's defaults: no backup, bash and zsh integrated *)
NoBackup == [enabled |-> FALSE, maxBackups |-> DefaultMaxBackups]

NoSession == PATH = <<>> /\ dirs = {}

(* no installEnvironment is running *)
NoInstallation == [pkg |-> 0, hook |-> "", ran |-> <<>>, status |-> "none"]

InitRegistry ==
    /\ modules = <<>>
    /\ last = called("constructor", "none", <<>>, <<>>)
    /\ clock = 0
    /\ user = "alice"
    /\ shellIntegration = [bash |-> TRUE, zsh |-> TRUE]
    /\ backup = NoBackup
    /\ cfgFile = NoFile
    /\ backups = {}
    /\ bashrc = NoFile
    /\ zshrc = NoFile
    /\ NoSession
    /\ installation = NoInstallation
    /\ runs = NoRuns

Init ==
    /\ modules = <<>>
    /\ last = called("constructor", "none", <<>>, <<>>)
    /\ clock = 0
    /\ user \in Users
    /\ shellIntegration \in [bash : BOOLEAN, zsh : BOOLEAN]
    /\ cfgFile \in {NoFile} \cup {[exists |-> TRUE, owner |-> o, text |-> OldText] : o \in Users}
    /\ bashrc \in {NoFile} \cup {emptyFile(o) : o \in Users}
    /\ zshrc \in {NoFile, emptyFile(user)}
    /\ backup = NoBackup
    /\ backups = {}
    /\ NoSession
    /\ installation = NoInstallation
    /\ runs = NoRuns

(* backup enabled, with a configuration file and a backup of it that earlier
   runs, of this user or of root, may have left *)
MaxBackups == 2

SameText == generateConfigContent(mergeConfigurations(<<>>), 0)

OldBackups == {[stamp |-> -1, owner |-> o, text |-> OldText] : o \in Users}

InitBackup ==
    /\ modules = <<>>
    /\ last = called("constructor", "none", <<>>, <<>>)
    /\ clock = 0
    /\ user = "alice"
    /\ shellIntegration = [bash |-> TRUE, zsh |-> TRUE]
    /\ backup \in {[enabled |-> TRUE, maxBackups |-> k] : k \in 0..MaxBackups}
    /\ cfgFile \in {NoFile} \cup {[exists |-> TRUE, owner |-> o, text |-> OldText] : o \in Users}
                       \cup {[exists |-> TRUE, owner |-> "alice", text |-> SameText]}
    /\ backups \in {{}} \cup {{b} : b \in {x \in OldBackups : cfgFile.exists}}
    /\ bashrc = NoFile
    /\ zshrc = NoFile
    /\ NoSession
    /\ installation = NoInstallation
    /\ runs = NoRuns

(* a shell session: its PATH may hold a configured directory already, and
   any of the configured directories may exist *)
InitSource ==
    /\ modules = <<>>
    /\ last = called("constructor", "none", <<>>, <<>>)
    /\ clock = 0
    /\ user = "alice"
    /\ shellIntegration = [bash |-> TRUE, zsh |-> TRUE]
    /\ backup = NoBackup
    /\ cfgFile = NoFile
    /\ backups = {}
    /\ bashrc = NoFile
    /\ zshrc = NoFile
    /\ PATH \in {<<"/usr/bin">>, <<"/opt/x/bin", "/usr/bin">>}
    /\ dirs \in SUBSET Paths
    /\ installation = NoInstallation
    /\ runs = NoRuns

(* startup files the user may have: empty, with a line of their own that
   ends in a newline or does not, with a line that holds the marker's label
   but not the block, with a line that sources the configuration file
   under no label, or with the block that configureZshIntegration of
   pkg-utils.ts appends, which names the file as $HOME/.eee-env *)
OwnLine == <<"# my own line">>

HomeBlock ==
    << EmptyLine, MarkerLine, <<"if [ -f ]; then", "$HOME/.eee-env">>,
       <<"  source", "$HOME/.eee-env">>, <<"fi">>, EmptyLine >>

StartupTexts ==
    { EmptyText,
      <<OwnLine, EmptyLine>>,
      <<OwnLine>>,
      <<OwnLine, MarkerLine, EmptyLine>>,
      <<OwnLine, <<"  source", ConfigPath>>, EmptyLine>>,
      HomeBlock }

StartupFiles ==
    {NoFile} \cup {[exists |-> TRUE, owner |-> o, text |-> x] : o \in Users, x \in StartupTexts}

InitShell ==
    /\ modules = <<>>
    /\ last = called("constructor", "none", <<>>, <<>>)
    /\ clock = 0
    /\ user = "alice"
    /\ shellIntegration \in [bash : BOOLEAN, zsh : BOOLEAN]
    /\ backup = NoBackup
    /\ cfgFile = NoFile
    /\ backups = {}
    /\ bashrc \in StartupFiles
    /\ zshrc \in StartupFiles
    /\ NoSession
    /\ installation = NoInstallation
    /\ runs = NoRuns

(* installEnvironment has entered its loop; root may have left the files *)
InitInstall ==
    /\ modules = <<>>
    /\ last = called("constructor", "none", <<>>, <<>>)
    /\ clock = 0
    /\ user = "alice"
    /\ shellIntegration = [bash |-> TRUE, zsh |-> TRUE]
    /\ backup = NoBackup
    /\ cfgFile \in {NoFile, [exists |-> TRUE, owner |-> "root", text |-> OldText]}
    /\ backups = {}
    /\ bashrc = NoFile
    /\ zshrc = NoFile
    /\ NoSession
    /\ installation = [pkg |-> 1, hook |-> "pre_install", ran |-> <<>>,
                       status |-> "running"]
    /\ runs = NoRuns

(* both processes have generated their content and are about to persist it;
   the files are the user's or missing *)
InitRace ==
    /\ modules = <<>>
    /\ last = called("constructor", "none", <<>>, <<>>)
    /\ clock = 0
    /\ user = "alice"
    /\ shellIntegration = [bash |-> TRUE, zsh |-> TRUE]
    /\ backup = NoBackup
    /\ cfgFile \in {NoFile, [exists |-> TRUE, owner |-> "alice", text |-> OldText]}
    /\ backups = {}
    /\ bashrc \in {NoFile, [exists |-> TRUE, owner |-> "alice",
                            text |-> <<OwnLine, EmptyLine>>]}
    /\ zshrc = NoFile
    /\ NoSession
    /\ installation = NoInstallation
    /\ runs = [proc |-> [p \in Procs |-> [pc |-> "read", content |-> contentOf(p, 0)]],
               log |-> <<>>]

(* the user's configuration file of an earlier run, or none *)
InitContent ==
    /\ modules = <<>>
    /\ last = called("constructor", "none", <<>>, <<>>)
    /\ clock = 0
    /\ user = "alice"
    /\ shellIntegration = [bash |-> TRUE, zsh |-> TRUE]
    /\ backup = NoBackup
    /\ cfgFile \in {NoFile, [exists |-> TRUE, owner |-> "alice", text |-> OldText]}
    /\ backups = {}
    /\ bashrc = NoFile
    /\ zshrc = NoFile
    /\ NoSession
    /\ installation = NoInstallation
    /\ runs = NoRuns

(* backup enabled, and files that an earlier run of root may have left *)
InitCycle ==
    /\ modules = <<>>
    /\ last = called("constructor", "none", <<>>, <<>>)
    /\ clock = 0
    /\ user = "alice"
    /\ shellIntegration = [bash |-> TRUE, zsh |-> TRUE]
    /\ backup = [enabled |-> TRUE, maxBackups |-> DefaultMaxBackups]
    /\ cfgFile \in {NoFile, [exists |-> TRUE, owner |-> "root", text |-> OldText]}
    /\ backups = {}
    /\ bashrc \in {NoFile, emptyFile("root")}
    /\ zshrc = NoFile
    /\ NoSession
    /\ installation = NoInstallation
    /\ runs = NoRuns

Registry(inputs) ==
    \/ \E m \in inputs : AddModule(m)
    \/ \E n \in Names : RemoveModule(n)
    \/ ClearAllModules
    \/ Plan

Next ==
    \/ \E m \in FileInputs : AddModule(m)
    \/ \E n \in Names : RemoveModule(n)
    \/ ClearAllModules
    \/ \E sudo \in Sudo, cpOk \in BOOLEAN : ApplyConfiguration(sudo, cpOk)
    \/ ValidateConfiguration
    \/ GetEnvironmentInfo
    \/ Tick

NextAliases ==
    \/ Registry(AliasInputs)
    \/ \E sudo \in Sudo, cpOk \in BOOLEAN : ApplyConfiguration(sudo, cpOk)

NextCycle ==
    \/ \E m \in CycleInputs : AddModule(m)
    \/ \E n \in Names : RemoveModule(n)
    \/ ClearAllModules
    \/ \E sudo \in Sudo, cpOk \in BOOLEAN : ApplyConfiguration(sudo, cpOk)

NextShell ==
    \/ \E m \in FileInputs : AddModule(m)
    \/ ClearAllModules
    \/ \E sudo \in Sudo, cpOk \in BOOLEAN : ApplyConfiguration(sudo, cpOk)
    \/ ValidateConfiguration

NextInstall ==
    \/ \E r \in Results : RunHook(r)
    \/ \E sudo \in Sudo : RunConfiguringHook(sudo)

NextRace ==
    \E p \in Procs :
        \/ ReadConfig(p)
        \/ WriteConfig(p)
        \/ EnsureFileExists(p)
        \/ \E f \in {"bashrc", "zshrc"} : CheckMarker(p, f) \/ AppendToFile(p, f)

NextContent ==
    \/ \E m \in ContentInputs : AddModule(m)
    \/ \E n \in Names : RemoveModule(n)
    \/ ClearAllModules
    \/ \E sudo \in Sudo, cpOk \in BOOLEAN : ApplyConfiguration(sudo, cpOk)
    \/ Tick

NextSource ==
    \/ Registry(PathInputs)
    \/ Source

Spec == Init /\ [][Next]_vars

SpecSource == InitSource /\ [][NextSource]_vars

SpecCycle == InitCycle /\ [][NextCycle]_vars

SpecShell == InitShell /\ [][NextShell]_vars

SpecInstall == InitInstall /\ [][NextInstall]_vars

SpecRace == InitRace /\ [][NextRace]_vars

SpecContent == InitContent /\ [][NextContent]_vars

SpecAliases == InitRegistry /\ [][NextAliases]_vars

SpecBackup == InitBackup /\ [][Next]_vars

SpecRegistry == InitRegistry /\ [][Registry(RegistryInputs)]_vars

SpecMerge == InitRegistry /\ [][Registry(MergeInputs)]_vars

SpecPaths == InitRegistry /\ [][Registry(PathInputs)]_vars

SpecWarn == InitRegistry /\ [][Registry(WarnInputs)]_vars

(***************************************************************************)
(* The dependency graph of a registry, for the properties below.           *)
(***************************************************************************)
registered(mods) == Range(keys(mods))

directDeps(mods, n) == IF has(mods, n) THEN Range(get(mods, n).deps) ELSE {}

RECURSIVE closure(_, _)
closure(mods, S) ==
    LET T == S \cup UNION {directDeps(mods, x) : x \in S}
    IN  IF T = S THEN S ELSE closure(mods, T)

(* the names n depends on, directly or transitively *)
dependencies(mods, n) == closure(mods, directDeps(mods, n))

dependsOn(mods, n, d) == d \in dependencies(mods, n)

Acyclic(mods) == \A n \in registered(mods) : ~dependsOn(mods, n, n)

indexOf(s, x) == CHOOSE i \in 1..Len(s) : s[i] = x

planned == last.op = "plan" /\ last.err = "none"

(***************************************************************************)
(* C5.  As claimed: addModule(m) with a dependency that is not registered  *)
(* throws MissingDependencyError and leaves the registry as it was,        *)
(* whatever m is: in every state the call can end that way and in no       *)
(* other.                                                                  *)
(***************************************************************************)
missingDependency(m) == \E i \in 1..Len(m.deps) : m.deps[i] \notin registered(modules)

rejectedAsMissing == last'.err = "MissingDependencyError" /\ modules' = modules

onlyRejectedAsMissing(m) ==
    /\ ENABLED (AddModule(m) /\ rejectedAsMissing)
    /\ ~ENABLED (AddModule(m) /\ ~rejectedAsMissing)

C5_MissingDependencyAlwaysRejected ==
    \A m \in RegistryInputs : missingDependency(m) => onlyRejectedAsMissing(m)

(* the name of m is non-empty and matches [a-zA-Z0-9_-]+, and so do its
   environment keys and alias keys match their patterns *)
wellFormed(m) ==
    /\ m.name \in Names
    /\ \A i \in 1..Len(m.env) : m.env[i][1] \notin {"", BadEnvKey}
    /\ \A i \in 1..Len(m.aliases) : m.aliases[i][1] \notin {"", BadAliasKey}

(***************************************************************************)
(* C5, amended.  The same for every m that passes validation; a malformed  *)
(* m is rejected with ValidationError before its dependencies are looked   *)
(* at.  On the empty registry this is the case of X depending on Y and of  *)
(* Y depending on X alike: neither call can store its module.              *)
(***************************************************************************)
C5_MissingDependencyRejected ==
    \A m \in RegistryInputs :
        (wellFormed(m) /\ missingDependency(m)) => onlyRejectedAsMissing(m)

C5_Witness ==
    /\ modules = <<>>
    /\ last.op = "addModule"
    /\ last.err = "MissingDependencyError"

(***************************************************************************)
(* C6.  As claimed: the dependency graph of the registry is acyclic in     *)
(* every reachable state.                                                  *)
(***************************************************************************)
C6_RegistryAlwaysAcyclic == Acyclic(modules)

(* an addModule that overwrote the module registered under its name *)
reAdded ==
    /\ Len(modules') = Len(modules)
    /\ \E i \in 1..Len(modules) : modules'[i] # modules[i]

(***************************************************************************)
(* C6, amended.  No call other than an addModule that re-adds a registered *)
(* name makes an acyclic registry cyclic; the registry starts empty.       *)
(***************************************************************************)
C6_AcyclicUnlessReAdded ==
    [][(Acyclic(modules) /\ ~reAdded) => Acyclic(modules')]_vars

C6_Witness ==
    /\ Len(modules) = 3
    /\ Acyclic(modules)
    /\ \E i \in 1..3 : dependencies(modules, modules[i].name) = registered(modules) \ {modules[i].name}
    /\ last.op = "addModule"
    /\ last.err = "none"

(***************************************************************************)
(* C7.  Resolving an acyclic registry does not throw, and the order holds  *)
(* every registered module exactly once, each after all its dependencies.  *)
(***************************************************************************)
C7_ResolvedOrderIsTopological ==
    (last.op = "plan" /\ Acyclic(modules)) =>
        /\ last.err = "none"
        /\ LET sorted == last.plan[1].sorted
           IN  /\ Len(sorted) = Len(modules)
               /\ Range(sorted) = registered(modules)
               /\ \A n \in registered(modules) :
                      \A d \in directDeps(modules, n) :
                          indexOf(sorted, d) < indexOf(sorted, n)

C7_Witness ==
    /\ planned
    /\ Len(modules) = 3
    /\ \E n \in registered(modules) : \E d \in directDeps(modules, n) :
           /\ priorityOf(get(modules, n)) < priorityOf(get(modules, d))
           /\ directDeps(modules, d) # {}

(***************************************************************************)
(* C8.  As claimed: of two registered modules neither of which depends on  *)
(* the other, the one with the lower priority number is earlier in the     *)
(* resolved order.                                                         *)
(***************************************************************************)
unrelated(n, d) == n # d /\ ~dependsOn(modules, n, d) /\ ~dependsOn(modules, d, n)

lowerPriority(n, d) == priorityOf(get(modules, n)) < priorityOf(get(modules, d))

C8_LowerPriorityAlwaysFirst ==
    planned =>
        \A n, d \in registered(modules) :
            (unrelated(n, d) /\ lowerPriority(n, d)) =>
                indexOf(last.plan[1].sorted, n) < indexOf(last.plan[1].sorted, d)

(* z is visited as a root before n: a lower priority number, or the same
   number and an earlier place in the registry *)
rootBefore(z, n) ==
    \/ lowerPriority(z, n)
    \/ /\ priorityOf(get(modules, z)) = priorityOf(get(modules, n))
       /\ indexOf(keys(modules), z) < indexOf(keys(modules), n)

(***************************************************************************)
(* C8, amended.  The module with the lower priority number is earlier      *)
(* unless the other one is a dependency, direct or transitive, of a module *)
(* that is visited as a root before it.                                    *)
(***************************************************************************)
C8_LowerPriorityFirstUnlessPulled ==
    planned =>
        \A n, d \in registered(modules) :
            (/\ unrelated(n, d)
             /\ lowerPriority(n, d)
             /\ ~\E z \in registered(modules) : rootBefore(z, n) /\ dependsOn(modules, z, d)) =>
                indexOf(last.plan[1].sorted, n) < indexOf(last.plan[1].sorted, d)

C8_Witness ==
    /\ planned
    /\ Len(modules) = 3
    /\ \E n, d \in registered(modules) :
           /\ unrelated(n, d)
           /\ lowerPriority(n, d)
           /\ priorityOf(get(modules, d)) = DefaultPriority
           /\ get(modules, d).priority = <<>>
           /\ indexOf(keys(modules), d) < indexOf(keys(modules), n)
           /\ indexOf(last.plan[1].sorted, n) < indexOf(last.plan[1].sorted, d)

(***************************************************************************)
(* C9.  With no dependencies declared anywhere, the merged value of an     *)
(* environment variable is the one set by the module with the largest      *)
(* priority number among the modules that set it, whichever was added      *)
(* first.                                                                  *)
(***************************************************************************)
sets(n, k) == hasKey(get(modules, n).env, k)

noDependencies == \A i \in 1..Len(modules) : modules[i].deps = <<>>

C9_LargerPriorityNumberWins ==
    (planned /\ noDependencies) =>
        \A n \in registered(modules) :
            (/\ sets(n, "FOO")
             /\ \A d \in registered(modules) \ {n} : sets(d, "FOO") => lowerPriority(d, n)) =>
                valueOf(last.plan[1].merged.environment, "FOO")
                    = valueOf(get(modules, n).env, "FOO")

C9_Witness ==
    /\ planned
    /\ noDependencies
    /\ \E n, d \in registered(modules) :
           /\ sets(n, "FOO") /\ sets(d, "FOO")
           /\ get(modules, d).priority = <<10>>
           /\ get(modules, n).priority = <<50>>
           /\ indexOf(keys(modules), n) < indexOf(keys(modules), d)
           /\ valueOf(last.plan[1].merged.environment, "FOO") = n

guardsOf(content, p) ==
    Cardinality({i \in 1..Len(content) - 3 :
        /\ content[i] = <<"# add to PATH", p>>
        /\ content[i + 1] = <<"if [ -d ] && not in PATH", p>>
        /\ content[i + 2] = <<"  export PATH", p>>
        /\ content[i + 3] = <<"fi">>})

listed(p) == \E i \in 1..Len(modules) : p \in Range(modules[i].paths)

C3_OneGuardPerPath ==
    planned =>
        \A p \in Paths :
            guardsOf(last.plan[1].content, p) = IF listed(p) THEN 1 ELSE 0

C3_Witness ==
    /\ planned
    /\ Len(modules) = 2
    /\ modules[1].paths = <<"/opt/x/bin", "/opt/x/bin">>
    /\ modules[2].paths = <<"/opt/y/bin", "/opt/x/bin">>
    /\ guardsOf(last.plan[1].content, "/opt/x/bin") = 1

(***************************************************************************)
(* Steps and logs of applyConfiguration, for the properties below.         *)
(***************************************************************************)
applyStep == last'.op = "applyConfiguration" /\ clock' = clock /\ modules' = modules

applied == last.op = "applyConfiguration" /\ last.err = "none"

did(log, what, f) == \E i \in 1..Len(log) : log[i] = <<what, f>>

(***************************************************************************)
(* C1.  As claimed: an applyConfiguration that follows a successful one,   *)
(* with no addModule, removeModule or clearAll in between, writes nothing  *)
(* to the configuration file and leaves it byte for byte as it was.        *)
(***************************************************************************)
C1_SecondApplyWritesNothing ==
    [][(applied /\ applyStep /\ last'.err = "none") =>
           (~did(last'.log, "write", "cfg") /\ cfgFile' = cfgFile)]_vars

(***************************************************************************)
(* C2.  A startup file that was missing or empty at the start never holds  *)
(* more than one marker block, and holds exactly one after every           *)
(* successful applyConfiguration with its shell enabled.                   *)
(***************************************************************************)
blocksOf(text) ==
    Cardinality({i \in 1..Len(text) - 3 :
        /\ text[i] = <<"# EEE Development Environment">>
        /\ text[i + 1] = <<"if [ -f ]; then", ConfigPath>>
        /\ text[i + 2] = <<"  source", ConfigPath>>
        /\ text[i + 3] = <<"fi">>})

markersOf(text) ==
    Cardinality({i \in 1..Len(text) : text[i] = <<"# EEE Development Environment">>})

oneBlock(f, enabled) ==
    /\ blocksOf(f.text) <= 1
    /\ markersOf(f.text) <= 1
    /\ (applied /\ enabled) => (blocksOf(f.text) = 1 /\ markersOf(f.text) = 1)

C2_ExactlyOneMarkerBlock ==
    /\ oneBlock(bashrc, shellIntegration.bash)
    /\ oneBlock(zshrc, shellIntegration.zsh)

C2_Witness ==
    /\ applied
    /\ shellIntegration.bash
    /\ blocksOf(bashrc.text) = 1
    /\ did(last.log, "write", "cfg")
    /\ ~did(last.log, "append", "bashrc")

(***************************************************************************)
(* C4.  As claimed: when the configuration file exists and is owned by     *)
(* another user and no chown fails, applyConfiguration does not throw, the *)
(* file is chowned before it is written and ends up owned by the target    *)
(* user.                                                                   *)
(***************************************************************************)
cfgForeign == cfgFile.exists /\ cfgFile.owner # user

chownBeforeWrite(log) ==
    \E i \in 1..Len(log) :
        /\ log[i] = <<"chown", "cfg">>
        /\ \A j \in 1..Len(log) : log[j] = <<"write", "cfg">> => i < j

repaired ==
    /\ last'.err = "none"
    /\ cfgFile'.owner = user
    /\ chownBeforeWrite(last'.log)

NameOrder == <<"a", "b", "c">>

nameBefore(n, d) == indexOf(NameOrder, n) < indexOf(NameOrder, d)

equalPriority(n, d) == priorityOf(get(modules, n)) = priorityOf(get(modules, d))

registeredBefore(n, d) == indexOf(keys(modules), n) < indexOf(keys(modules), d)

sortedNames(mods) ==
    LET r == resolveDependencies(mods) IN [i \in 1..Len(r.sorted) |-> r.sorted[i].name]

(* the registries that hold the modules of mods, in any order *)
reorderings(mods) ==
    {[i \in 1..Len(mods) |-> mods[q[i]]] : q \in Permutations(1..Len(mods))}

C11_OrderIndependentOfInsertion ==
    planned =>
        /\ \A n, d \in registered(modules) :
               (unrelated(n, d) /\ equalPriority(n, d) /\ nameBefore(n, d)) =>
                   indexOf(last.plan[1].sorted, n) < indexOf(last.plan[1].sorted, d)
        /\ \A mods \in reorderings(modules) :
               /\ sortedNames(mods) = last.plan[1].sorted
               /\ mergeConfigurations(resolveDependencies(mods).sorted)
                      = last.plan[1].merged

(***************************************************************************)
(* C11, amended.  Of two unrelated modules of equal priority the one       *)
(* registered first is earlier in the resolved order, unless the other is  *)
(* a dependency of a module that is visited as a root before it; the       *)
(* resolved order and the merged configuration are those of the registry   *)
(* in its insertion order.                                                 *)
(***************************************************************************)
C11_EqualPriorityInInsertionOrder ==
    planned =>
        /\ \A n, d \in registered(modules) :
               (/\ unrelated(n, d)
                /\ equalPriority(n, d)
                /\ registeredBefore(n, d)
                /\ ~\E z \in registered(modules) :
                       rootBefore(z, n) /\ dependsOn(modules, z, d)) =>
                   indexOf(last.plan[1].sorted, n) < indexOf(last.plan[1].sorted, d)
        /\ sortedNames(modules) = last.plan[1].sorted
        /\ mergeConfigurations(resolveDependencies(modules).sorted) = last.plan[1].merged

C11_Witness ==
    /\ planned
    /\ \E n, d \in registered(modules) :
           /\ unrelated(n, d) /\ equalPriority(n, d)
           /\ nameBefore(d, n) /\ registeredBefore(n, d)
           /\ sets(n, "FOO") /\ sets(d, "FOO")
           /\ indexOf(last.plan[1].sorted, n) < indexOf(last.plan[1].sorted, d)
           /\ valueOf(last.plan[1].merged.environment, "FOO") = d

(***************************************************************************)
(* C12.  Two modules that define the same alias, or the same function,     *)
(* with different values make neither the merge nor applyConfiguration     *)
(* throw, and the merged configuration, the generated content and the      *)
(* written file hold the value of the definer that is last in the resolved *)
(* order, and no other value.                                              *)
(***************************************************************************)
definers(ms, field, k) == {i \in 1..Len(ms) : hasKey(ms[i][field], k)}

(* the value of k in the last module of ms that defines it *)
lastValue(ms, field, k) ==
    LET D == definers(ms, field, k)
    IN  valueOf(ms[CHOOSE i \in D : \A j \in D : j <= i][field], k)

linesOf(text, kind, k) == {text[i] : i \in {j \in 1..Len(text) : Len(text[j]) > 1 /\ text[j][1] = kind /\ text[j][2] = k}}

holdsLast(ms, merged, text) ==
    /\ definers(ms, "aliases", "ll") # {} =>
           /\ valueOf(merged.aliases, "ll") = lastValue(ms, "aliases", "ll")
           /\ linesOf(text, "alias", "ll") = {<<"alias", "ll", lastValue(ms, "aliases", "ll")>>}
    /\ definers(ms, "functions", "mk") # {} =>
           /\ valueOf(merged.functions, "mk") = lastValue(ms, "functions", "mk")
           /\ \E i \in 1..Len(text) - 1 :
                  /\ text[i] = <<"() {", "mk">>
                  /\ text[i + 1] = <<"  body", lastValue(ms, "functions", "mk")>>
                  /\ \A j \in 1..Len(text) - 1 : text[j] = <<"() {", "mk">> => j = i

collides(field, k) ==
    \E i, j \in 1..Len(modules) :
        /\ i # j
        /\ hasKey(modules[i][field], k) /\ hasKey(modules[j][field], k)
        /\ valueOf(modules[i][field], k) # valueOf(modules[j][field], k)

C12_CollisionsMergeLastWins ==
    LET ms == resolveDependencies(modules).sorted
    IN  (Acyclic(modules) /\ (collides("aliases", "ll") \/ collides("functions", "mk"))) =>
            /\ last.op = "plan" =>
                   /\ last.err = "none"
                   /\ holdsLast(ms, last.plan[1].merged, last.plan[1].content)
            /\ last.op = "applyConfiguration" =>
                   /\ last.err = "none"
                   /\ holdsLast(ms, mergeConfigurations(ms), cfgFile.text)

C12_Witness ==
    /\ applied
    /\ collides("aliases", "ll")
    /\ collides("functions", "mk")
    /\ priorityOf(modules[1]) > priorityOf(modules[2])
    /\ modules[2].deps = <<>>
    /\ <<"alias", "ll", <<"ls", modules[1].name>>>> \in Range(cfgFile.text)
    /\ did(last.log, "write", "cfg")

(***************************************************************************)
(* C13.  removeModule(n) throws DependentModuleError and leaves the        *)
(* registry as it was when a registered module lists n among its           *)
(* dependencies; otherwise it does not throw and the registry afterwards   *)
(* is the registry before without the module named n, every other module   *)
(* as it was and where it was.                                             *)
(***************************************************************************)
listedAsDependency(n) == \E i \in 1..Len(modules) : n \in Range(modules[i].deps)

refusedAsDependedOn == last'.err = "DependentModuleError" /\ modules' = modules

deletedOnly(n) ==
    /\ last'.err = "none"
    /\ ~has(modules', n)
    /\ modules' = SelectSeq(modules, LAMBDA m : m.name # n)

C13_RemoveRefusedOrDeletesOnlyThat ==
    \A n \in Names :
        IF listedAsDependency(n)
        THEN /\ ENABLED (RemoveModule(n) /\ refusedAsDependedOn)
             /\ ~ENABLED (RemoveModule(n) /\ ~refusedAsDependedOn)
        ELSE /\ ENABLED (RemoveModule(n) /\ deletedOnly(n))
             /\ ~ENABLED (RemoveModule(n) /\ ~deletedOnly(n))

C13_Witness ==
    /\ last.op = "removeModule"
    /\ last.err = "none"
    /\ Len(last.log) = 1
    /\ Len(modules) = 2
    /\ modules[2].deps = <<modules[1].name>>
    /\ last.log[1][2] \notin registered(modules)

(***************************************************************************)
(* C14.  addModule(m) throws ValidationError and leaves the registry as it *)
(* was for every m whose name is empty or malformed, or that has a         *)
(* malformed environment key or alias key, whether or not its dependencies *)
(* are registered.                                                         *)
(***************************************************************************)
malformed(m) ==
    \/ m.name \in {"", BadName}
    \/ \E i \in 1..Len(m.env) : m.env[i][1] \in {"", BadEnvKey}
    \/ \E i \in 1..Len(m.aliases) : m.aliases[i][1] \in {"", BadAliasKey}

rejectedAsInvalid == last'.err = "ValidationError" /\ modules' = modules

C14_MalformedModuleRejected ==
    \A m \in RegistryInputs :
        malformed(m) =>
            /\ ENABLED (AddModule(m) /\ rejectedAsInvalid)
            /\ ~ENABLED (AddModule(m) /\ ~rejectedAsInvalid)

C14_Witness ==
    /\ last.op = "addModule"
    /\ last.err = "ValidationError"
    /\ Len(modules) = 1
    /\ \E m \in RegistryInputs :
           /\ m.name \in Names \ registered(modules)
           /\ m.env # <<>>
           /\ malformed(m)
           /\ missingDependency(m)

(***************************************************************************)
(* C15.  validateConfiguration and getEnvironmentInfo change nothing: the  *)
(* registry, the configuration file, its backups and the two startup files *)
(* (existence, content, owner) are after the call what they were before.   *)
(***************************************************************************)
inspectStep == last' # last /\ last'.op \in {"validateConfiguration", "getEnvironmentInfo"}

C15_InspectionMutatesNothing ==
    [][inspectStep =>
           /\ modules' = modules
           /\ cfgFile' = cfgFile
           /\ backups' = backups
           /\ bashrc' = bashrc
           /\ zshrc' = zshrc]_vars

C15_Witness ==
    /\ last.op = "validateConfiguration"
    /\ last.plan[1].valid
    /\ backups # {}
    /\ modules # <<>>
    /\ cfgFile.exists

(***************************************************************************)
(* C16.  Sourcing the generated content prepends a configured directory to *)
(* PATH exactly when it exists and is not a component of PATH yet, and     *)
(* changes PATH in no other way; sourcing the same content again leaves    *)
(* PATH as it is, and a configured directory that was not in PATH twice at *)
(* the start of the session never is.                                      *)
(***************************************************************************)
occurrences(s, x) == Cardinality({i \in 1..Len(s) : s[i] = x})

sourceStep == last.op \in {"plan", "source"} /\ last'.op = "source"

configured(p) == p \in Range(last.plan[1].merged.paths)

C16_SourcingIsIdempotentOnPath ==
    [][sourceStep =>
           /\ \A p \in Paths :
                  occurrences(PATH', p) =
                      IF configured(p) /\ p \in dirs /\ p \notin Range(PATH)
                      THEN 1 ELSE occurrences(PATH, p)
           /\ occurrences(PATH', "/usr/bin") = occurrences(PATH, "/usr/bin")
           /\ \A p \in Paths : occurrences(PATH', p) <= 1
           /\ last.op = "source" => PATH' = PATH]_vars

C16_Witness ==
    /\ last.op = "source"
    /\ Len(last.plan[1].merged.paths) = 2
    /\ dirs = {"/opt/y/bin"}
    /\ PATH = <<"/opt/y/bin", "/usr/bin">>
    /\ ENABLED Source

(***************************************************************************)
(* Steps of applyConfiguration with backup enabled, for the properties     *)
(* below.  generated is the content the call generates.                    *)
(***************************************************************************)
generated ==
    generateConfigContent(mergeConfigurations(resolveDependencies(modules).sorted), clock)

backupStep == applyStep /\ last' # last /\ backup.enabled

(***************************************************************************)
(* C17.  As claimed: with backup enabled, an applyConfiguration that       *)
(* generates content byte-identical to the existing configuration file     *)
(* creates no backup and deletes none, and a backup is created only by a   *)
(* call that overwrites an existing file with different content.           *)
(***************************************************************************)
C17_BackupOnlyBeforeOverwrite ==
    [][backupStep =>
           /\ (cfgFile.exists /\ cfgFile.text = generated) => backups' = backups
           /\ did(last'.log, "cp", clock) =>
                  /\ cfgFile.exists
                  /\ cfgFile.text # generated
                  /\ did(last'.log, "write", "cfg")]_vars

(***************************************************************************)
(* C18.  After a successful applyConfiguration with backup enabled there   *)
(* are at most backup.maxBackups backups, and every backup the call has    *)
(* removed is older than every backup it has kept.                         *)
(***************************************************************************)
removedStamps ==
    (stampsOf(backups) \cup (IF did(last'.log, "cp", clock) THEN {clock} ELSE {}))
        \ stampsOf(backups')

C18_AtMostMaxBackupsOldestPruned ==
    [][(backupStep /\ last'.err = "none") =>
           /\ Cardinality(backups') <= backup.maxBackups
           /\ \A r \in removedStamps : \A k \in stampsOf(backups') : r < k]_vars

C18_Witness ==
    /\ applied
    /\ backup.enabled
    /\ backup.maxBackups = 2
    /\ Cardinality(backups) = 2
    /\ \E i \in 1..Len(last.log) : last.log[i][1] = "rm" /\ last.log[i][2] # {}
    /\ did(last.log, "cp", clock)

(***************************************************************************)
(* C19.  As claimed: when the configuration file is owned by another user  *)
(* and the chown fails, for whatever reason, applyConfiguration ends with  *)
(* an error whose message holds the remediation command                    *)
(* chown <user>:<group> <path>, the configuration file left as it was.     *)
(***************************************************************************)
chownFailed(kind) ==
    /\ cfgForeign
    /\ applyStep
    /\ \E i \in 1..Len(last'.log) : last'.log[i] = <<"sudo chown failed", "cfg", kind>>

failedWithRemedy ==
    /\ last'.err = "OwnershipRepairError"
    /\ Len(last'.msg) = 1
    /\ last'.msg[1].remedy =
           << <<"sudo chown", user, getUserPrimaryGroup(user), ConfigPath>> >>
    /\ cfgFile' = cfgFile

failedWithoutRemedy ==
    /\ last'.err = "OwnershipRepairError"
    /\ Len(last'.msg) = 1
    /\ last'.msg[1].remedy = <<>>
    /\ last'.msg[1].path = ConfigPath
    /\ last'.msg[1].stderr = <<"other">>
    /\ cfgFile' = cfgFile

copyFailed == backupStep /\ did(last'.log, "cp failed", clock)

C20_FailedBackupAborts ==
    [][copyFailed => (last'.err = "PersistenceError" /\ cfgFile' = cfgFile)]_vars

(***************************************************************************)
(* C20, amended.  The failure of the copy is ignored: the call makes no    *)
(* backup, throws nothing on its account (on an acyclic registry it ends   *)
(* without error) and goes on to overwrite the configuration file unless   *)
(* the file holds the generated content already.                           *)
(***************************************************************************)
C20_FailedBackupIgnored ==
    [][copyFailed =>
           /\ last'.err # "PersistenceError"
           /\ Acyclic(modules) => last'.err = "none"
           /\ stampsOf(backups') \subseteq stampsOf(backups)
           /\ (Acyclic(modules) /\ cfgFile.text # generated) =>
                  /\ did(last'.log, "write", "cfg")
                  /\ cfgFile'.text = hereDocument(generated)]_vars

C20_Witness ==
    /\ applied
    /\ backup.enabled
    /\ did(last.log, "cp failed", clock)
    /\ did(last.log, "write", "cfg")
    /\ backups = {}
    /\ modules # <<>>

(***************************************************************************)
(* C21.  In every applyConfiguration the startup files are created or      *)
(* appended to only after the configuration file has been persisted        *)
(* (written, or skipped because it holds the generated content), and a     *)
(* call that throws before or in the persistence step creates and appends  *)
(* to no startup file.  The call being one step, the order of its effects  *)
(* is the order of its log.  (The ownership of a startup file is repaired  *)
(* earlier, by fixAllPermissions: that is not a change of its content.)    *)
(***************************************************************************)
integrates(e) == Len(e) = 2 /\ e[1] \in {"append", "touch"} /\ e[2] \in {"bashrc", "zshrc"}

integrated(log) == \E i \in 1..Len(log) : integrates(log[i])

persistsLast(log) ==
    \A i, j \in 1..Len(log) :
        (integrates(log[i]) /\ ~integrates(log[j])) => j < i

persisted(log) == did(log, "write", "cfg") \/ readCurrentConfig(cfgFile) = <<generated>>

sameContent(f, g) == f.exists = g.exists /\ f.text = g.text

failedBeforeIntegration ==
    last'.err \in {"OwnershipRepairError", "PersistenceError", "CyclicDependencyError"}

cyclicStep == applyStep /\ last' # last /\ ~Acyclic(modules)

onCycle(n) == n \in registered(modules) /\ dependsOn(modules, n, n)

namesCycle == last'.err = "CyclicDependencyError" /\ \E n \in Names : last'.msg = <<n>> /\ onCycle(n)

writes(e) == Len(e) = 2 /\ e[1] \in {"write", "append", "touch"}

nothingWritten ==
    /\ \A i \in 1..Len(last'.log) : ~writes(last'.log[i])
    /\ sameContent(cfgFile', cfgFile)
    /\ sameContent(bashrc', bashrc)
    /\ sameContent(zshrc', zshrc)

C22_CycleRaisesCyclicDependencyError ==
    [][cyclicStep => (namesCycle /\ nothingWritten)]_vars

(***************************************************************************)
(* C22, amended.  The ownership of the files is repaired before the        *)
(* dependencies are resolved: on a cyclic registry the call throws         *)
(* OwnershipRepairError when a chown fails and CyclicDependencyError       *)
(* naming a module on a cycle otherwise; either way before any write to    *)
(* the configuration file or to a startup file, whose contents are         *)
(* unchanged.                                                              *)
(***************************************************************************)
aChownFailed ==
    \E i \in 1..Len(last'.log) :
        Len(last'.log[i]) = 3 /\ last'.log[i][1] = "sudo chown failed"

C22_CycleRaisesErrorBeforeAnyWrite ==
    [][cyclicStep =>
           /\ IF aChownFailed THEN last'.err = "OwnershipRepairError" ELSE namesCycle
           /\ nothingWritten]_vars

C22_Witness ==
    /\ last.op = "applyConfiguration"
    /\ last.err = "CyclicDependencyError"
    /\ Len(modules) = 3
    /\ \A n \in Names : onCycle(n) /\ n \notin directDeps(modules, n)
    /\ did(last.log, "chown", "cfg")
    /\ did(last.log, "cp", clock)
    /\ ~bashrc.exists

(***************************************************************************)
(* C23.  Shell integration only adds: for every applyConfiguration and     *)
(* each startup file, the bytes the file held before the call are a prefix *)
(* of the bytes it holds after it.  In a text held by lines that is: the   *)
(* lines but the last are kept as they are and in their place, and the     *)
(* last (what follows the last newline) starts the line in its place.      *)
(***************************************************************************)
RECURSIVE startsLine(_, _)
startsLine(l, m) ==
    \/ l = EmptyLine
    \/ l = m
    \/ Len(m) = 3 /\ m[1] = "joined" /\ startsLine(l, m[2])

textPrefix(t, x) ==
    \/ t = <<>>
    \/ /\ Len(t) <= Len(x)
       /\ \A i \in 1..Len(t) - 1 : t[i] = x[i]
       /\ startsLine(t[Len(t)], x[Len(t)])

keptAsPrefix(f, g) == f.exists => (g.exists /\ textPrefix(f.text, g.text))

C23_IntegrationOnlyAppends ==
    [][(applyStep /\ last' # last) =>
           (keptAsPrefix(bashrc, bashrc') /\ keptAsPrefix(zshrc, zshrc'))]_vars

C23_Witness ==
    /\ applied
    /\ did(last.log, "append", "bashrc")
    /\ did(last.log, "append", "zshrc")
    /\ bashrc.text = << <<"joined", OwnLine, MarkerLine>> >> \o Tail(sourceLines)
                          \o <<EmptyLine, EmptyLine>>
    /\ zshrc.text = <<OwnLine, <<"  source", ConfigPath>>>> \o sourceLines
                         \o <<EmptyLine, EmptyLine>>

(***************************************************************************)
(* C24.  As claimed: the merge warns of a conflict on an alias or function *)
(* key once for each module that defines the key with a value different    *)
(* from the one recorded by the modules before it in resolved order, the   *)
(* empty string included, and never otherwise.                             *)
(***************************************************************************)
WarnKeys == {"ll", "mk", "constructor"}

(* the modules of ms that define k with a value other than the one the
   modules before them recorded *)
redefiners(ms, field, k) ==
    {i \in definers(ms, field, k) :
        /\ definers(SubSeq(ms, 1, i - 1), field, k) # {}
        /\ lastValue(SubSeq(ms, 1, i - 1), field, k) # valueOf(ms[i][field], k)}

warned(ws, kind, k) == Cardinality({i \in 1..Len(ws) : ws[i] = <<kind, k>>})

C24_WarningExactlyOnDifferentValue ==
    planned =>
        LET ms == resolveDependencies(modules).sorted
            ws == last.plan[1].warnings
        IN  \A k \in WarnKeys :
                /\ warned(ws, "alias conflict", k) = Cardinality(redefiners(ms, "aliases", k))
                /\ warned(ws, "function conflict", k) = Cardinality(redefiners(ms, "functions", k))

(***************************************************************************)
(* C25.  As claimed: the install sequence is fail-fast: once a hook of a   *)
(* package has failed (pre_install, install or post_install, a hook that   *)
(* failed because applyConfiguration threw included) the sequence is       *)
(* aborted and no hook of a later package is run.                          *)
(***************************************************************************)
ranAt(i) == [pkg |-> installation.ran[i][1], hook |-> installation.ran[i][2],
             result |-> installation.ran[i][3]]

Ran == 1..Len(installation.ran)

C25_AnyHookFailureAborts ==
    \A i \in Ran :
        failed(ranAt(i).result) =>
            /\ installation.status = "exit 1"
            /\ \A j \in Ran : ranAt(j).pkg <= ranAt(i).pkg

(***************************************************************************)
(* C25, amended.  A failure of install, or of pre_install with an error    *)
(* whose message does not hold "Cannot find module", aborts the sequence:  *)
(* no hook runs after it.  A failure of post_install, or of pre_install    *)
(* with such a message, is not fatal: the next hook in turn is run.        *)
(***************************************************************************)
fatal(e) ==
    \/ e.hook = "install" /\ e.result # "returned"
    \/ e.hook = "pre_install" /\ e.result = "threw"

follows(e, f) ==
    IF e.hook = "post_install"
    THEN f.pkg = e.pkg + 1 /\ f.hook = "pre_install"
    ELSE f.pkg = e.pkg /\ f.hook = nextHook(e.hook)

C25_FailureOfInstallOrPreInstallAborts ==
    /\ \A i \in Ran :
           IF fatal(ranAt(i))
           THEN i = Len(installation.ran) /\ installation.status = "exit 1"
           ELSE /\ i < Len(installation.ran) => follows(ranAt(i), ranAt(i + 1))
                /\ i = Len(installation.ran) =>
                       installation.status = IF ranAt(i).pkg = MaxPackages
                                                /\ ranAt(i).hook = "post_install"
                                             THEN "done" ELSE "running"
    /\ installation.status = "exit 1" =>
           (installation.ran # <<>> /\ fatal(ranAt(Len(installation.ran))))

C25_Witness ==
    /\ installation.status = "exit 1"
    /\ Len(installation.ran) = 5
    /\ installation.ran[3] = <<1, "post_install", "threw">>
    /\ installation.ran[5] = <<2, "install", "threw">>
    /\ last.op = "applyConfiguration"
    /\ last.err = "OwnershipRepairError"

(***************************************************************************)
(* C26.  Two applyConfiguration calls in separate processes on one home    *)
(* are not mutually excluded.  A process appends the marker block to a     *)
(* startup file whenever it found the marker absent, whatever the other    *)
(* process has appended since: the file holds one block for each append,   *)
(* two when both processes checked before either appended.  A process      *)
(* writes the configuration file whenever it read a different content,     *)
(* and the file holds the content of the process that wrote last.          *)
(***************************************************************************)
racing == runs # NoRuns

steps(what) == {i \in 1..Len(runs.log) : runs.log[i][2] = what}

stepOf(p, what) == {i \in steps(what) : runs.log[i][1] = p}

(* each append by p follows a check by p that no append preceded *)
appendsAfterAbsent(f) ==
    \A i \in steps(appending(f)) :
        \E j \in stepOf(runs.log[i][1], checking(f)) :
            j < i /\ \A k \in steps(appending(f)) : j < k

lastWriter == runs.log[CHOOSE i \in steps("write") : \A j \in steps("write") : j <= i][1]

C26_RunsAreNotMutuallyExcluded ==
    racing =>
        /\ \A f \in {"bashrc", "zshrc"} :
               /\ blocksOf(startup(f).text) = Cardinality(steps(appending(f)))
               /\ appendsAfterAbsent(f)
        /\ steps("write") # {} =>
               cfgFile.text = hereDocument(runs.proc[lastWriter].content)
        /\ \A p \in Procs : Cardinality(stepOf(p, "write")) <= 1

C26_Witness ==
    /\ racing
    /\ \A p \in Procs : runs.proc[p].pc = "done"
    /\ blocksOf(bashrc.text) = 2
    /\ blocksOf(zshrc.text) = 1
    /\ SubSeq(runs.log, 1, 4) = << <<1, "read">>, <<2, "read">>, <<2, "write">>, <<1, "write">> >>
    /\ cfgFile.text = hereDocument(contentOf(1, 0))

(***************************************************************************)
(* C27.  After any sequence of addModule, removeModule and clearAllModules *)
(* calls, refused or not, every name in the dependencies of a registered   *)
(* module is a registered module: the resolver meets no dependency that is *)
(* missing from the registry.                                              *)
(***************************************************************************)
C27_DependenciesAreRegistered ==
    \A i \in 1..Len(modules) :
        \A k \in 1..Len(modules[i].deps) : has(modules, modules[i].deps[k])

C27_Witness ==
    /\ last.op = "removeModule"
    /\ last.err = "DependentModuleError"
    /\ Len(modules) = 3
    /\ \E i \in 1..3 : modules[i].name = "a" /\ modules[i].deps = <<"a">>
    /\ \E i \in 1..3 : modules[i].name = "b" /\ modules[i].deps = <<"c">>
    /\ \E i \in 1..3 : modules[i].name = "c" /\ modules[i].deps = <<"b">>

(***************************************************************************)
(* C28.  As claimed: with bash and zsh integration enabled, a              *)
(* validateConfiguration that follows a successful applyConfiguration      *)
(* returns valid = TRUE and no issue, whatever the startup files held      *)
(* before the apply.                                                       *)
(***************************************************************************)
validatedAfterApply ==
    /\ applied
    /\ shellIntegration.bash /\ shellIntegration.zsh
    /\ last'.op = "validateConfiguration"

C28_ValidAfterSuccessfulApply ==
    [][validatedAfterApply =>
           (last'.plan[1].valid /\ last'.plan[1].issues = <<>>)]_vars

(***************************************************************************)
(* C29.  After an applyConfiguration that writes the configuration file,   *)
(* the exports, PATH guards, aliases, functions and custom code in the     *)
(* file are exactly those of the merge of the registered modules, in its   *)
(* order, and no line of the file's earlier content is left; with an       *)
(* empty registry the file holds the header and the footer line only.      *)
(***************************************************************************)
kindsOf(text, kinds) == SelectSeq(text, LAMBDA l : Len(l) > 1 /\ l[1] \in kinds)

GuardKinds == {"# add to PATH", "if [ -d ] && not in PATH", "  export PATH"}

frameOf(now) ==
    Range(headerLines(now)) \cup
    { EmptyLine, FooterLine, <<"fi">>, <<"}">>,
      <<"# ========== environment ==========">>, <<"# ========== PATH ==========">>,
      <<"# ========== aliases ==========">>, <<"# ========== functions ==========">>,
      <<"# ========== custom code ==========">> }

holdsExactly(text, merged, now) ==
    /\ kindsOf(text, {"export"}) = exportLines(merged.environment)
    /\ kindsOf(text, GuardKinds) = kindsOf(pathLines(merged.paths), GuardKinds)
    /\ kindsOf(text, {"alias"}) = aliasLines(merged.aliases)
    /\ kindsOf(text, {"() {", "  body"}) = kindsOf(functionLines(merged.functions), {"() {", "  body"})
    /\ kindsOf(text, {"custom"}) = customLines(merged.customCode)
    /\ \A i \in 1..Len(text) :
           \/ text[i] \in frameOf(now)
           \/ Len(text[i]) > 1 /\ text[i][1] \in {"export", "alias", "() {", "  body", "custom"} \cup GuardKinds

wroteConfig == applyStep /\ last'.err = "none" /\ did(last'.log, "write", "cfg")

C29_FileHoldsExactlyTheMergedConfiguration ==
    [][wroteConfig =>
           /\ holdsExactly(cfgFile'.text,
                           mergeConfigurations(resolveDependencies(modules).sorted), clock)
           /\ modules = <<>> =>
                  cfgFile'.text = headerLines(clock) \o <<FooterLine, EmptyLine>>]_vars

C29_Witness ==
    /\ applied
    /\ did(last.log, "write", "cfg")
    /\ modules = <<>>
    /\ clock = 1
    /\ cfgFile.text = headerLines(1) \o <<FooterLine, EmptyLine>>
    /\ last.log = << <<"write", "cfg">> >>

(***************************************************************************)
(* C30.  As claimed: applyConfiguration leaves the startup file of a shell *)
(* whose integration is disabled as it was: not created, not appended to,  *)
(* its owner not changed.                                                  *)
(***************************************************************************)
disabledShells ==
    {f \in {"bashrc", "zshrc"} :
        IF f = "bashrc" THEN ~shellIntegration.bash ELSE ~shellIntegration.zsh}

startupAfter(f) == IF f = "bashrc" THEN bashrc' ELSE zshrc'

C30_DisabledShellFileUntouched ==
    [][(applyStep /\ last' # last) =>
           \A f \in disabledShells : startupAfter(f) = startup(f)]_vars

(***************************************************************************)
(* C30, amended.  The startup file of a disabled shell is not created and  *)
(* not appended to, but fixAllPermissions repairs its ownership as it does *)
(* that of every other file: a file that exists and is owned by another    *)
(* user is given to the target user, or the call fails when the chown      *)
(* does.                                                                   *)
(***************************************************************************)
C30_DisabledShellFileOnlyChowned ==
    [][(applyStep /\ last' # last) =>
           \A f \in disabledShells :
               /\ sameContent(startupAfter(f), startup(f))
               /\ ~did(last'.log, "append", f) /\ ~did(last'.log, "touch", f)
               /\ startupAfter(f).owner # startup(f).owner <=> did(last'.log, "chown", f)
               /\ did(last'.log, "chown", f) =>
                      (startup(f).exists /\ startup(f).owner # user
                       /\ startupAfter(f).owner = user)
               /\ (startup(f).exists /\ startup(f).owner # user) =>
                      (did(last'.log, "chown", f) \/ last'.err = "OwnershipRepairError")]_vars

C30_Witness ==
    /\ applied
    /\ ~shellIntegration.bash /\ shellIntegration.zsh
    /\ did(last.log, "chown", "bashrc")
    /\ did(last.log, "append", "zshrc")
    /\ bashrc = [exists |-> TRUE, owner |-> "alice", text |-> <<OwnLine, EmptyLine>>]

====
